---- MODULE Spec2Model ----
(***************************************************************************)
(* Model of mlat/solver.py: solve() and its objective _residuals().        *)
(*                                                                         *)
(* Numbers.  Python floats are modelled by integers: lengths in metres,    *)
(* times in microseconds, variances in microseconds squared.  math.sqrt is *)
(* the integer floor square root.  A float is a sequence: <<v>> is the     *)
(* finite float v, <<>> is NaN, PosInf and NegInf are the infinities.  A   *)
(* value that may be None is a sequence too: <<v>> holds v, <<>> is None.  *)
(*                                                                         *)
(* Collaborators.  mlat.geodesy, mlat.config and mlat.constants are not    *)
(* part of the source file; they are modelled from the specification's     *)
(* section 6 (a spherical earth, angles rounded to quarter turns).         *)
(* scipy.optimize.minimize is modelled by its contract: it iterates at     *)
(* most maxiter times, reports success only at a finite state with a       *)
(* finite objective value, and lets an exception of the objective escape.  *)
(* It evaluates the objective one call at a time: a gradient takes one     *)
(* evaluation at the point and one for each component of the state.  Spec  *)
(* lets it report success at any such state; FitSpec adds the criterion of *)
(* convergence, a vanishing gradient, for the noise-free scenarios, whose  *)
(* objective is known on a grid of one metre.                              *)
(***************************************************************************)
EXTENDS Integers, Sequences, FiniteSets, TLC

\* Python's None, and Some(v) for a value that might have been None
None == <<>>
Some(v) == <<v>>

\* the floats: Float(v) for a finite one, NaN, and the two infinities
NaN == <<>>
Float(v) == <<v>>
PosInf == <<1, "inf">>
NegInf == <<-1, "inf">>

IsFiniteFloat(f) == Len(f) = 1

\* a list of finite floats, and the numbers of one
Floats(p) == [i \in 1..Len(p) |-> Float(p[i])]
Numbers(x) == [i \in 1..Len(x) |-> x[i][1]]

\* IEEE comparison a < b: false when a or b is NaN; -inf is below and +inf
\* above every finite float
FloatLess(a, b) ==
    /\ a # NaN
    /\ b # NaN
    /\ IF a = PosInf \/ b = NegInf THEN FALSE
       ELSE IF a = NegInf \/ b = PosInf THEN TRUE
       ELSE a[1] < b[1]

Abs(n) == IF n < 0 THEN -n ELSE n

\* IEEE negation and subtraction: NaN spreads, inf - inf is NaN
FloatNeg(a) == IF a = NaN THEN NaN
               ELSE IF a = PosInf THEN NegInf
               ELSE IF a = NegInf THEN PosInf
               ELSE Float(-a[1])

FloatSub(a, b) ==
    IF a = NaN \/ b = NaN THEN NaN
    ELSE IF IsFiniteFloat(a) /\ IsFiniteFloat(b) THEN Float(a[1] - b[1])
    ELSE IF IsFiniteFloat(b) THEN a
    ELSE IF IsFiniteFloat(a) THEN FloatNeg(b)
    ELSE IF a = b THEN NaN
    ELSE a

Min2(a, b) == IF a <= b THEN a ELSE b

\* Python float division of two finite numbers, a / b in 1/scale units,
\* rounding towards zero; a * scale need not fit an integer.
TruncDiv(a, b, scale) ==
    LET q == Abs(a) \div Abs(b)
        r == Abs(a) % Abs(b)
        m == q * scale + ((r * scale) \div Abs(b))
    IN  IF (a < 0) = (b < 0) THEN m ELSE -m

\* The float a divided by the finite number b, in 1/scale units, where a
\* division by zero does not raise: 0 / 0 is NaN, any other a / 0 is an
\* infinity of the sign of a, and an infinity takes the sign of b.
FloatDiv(a, b, scale) ==
    IF a = NaN THEN NaN
    ELSE IF ~IsFiniteFloat(a) THEN (IF b < 0 THEN FloatNeg(a) ELSE a)
    ELSE IF b # 0 THEN Float(TruncDiv(a[1], b, scale))
    ELSE IF a[1] = 0 THEN NaN
    ELSE IF a[1] > 0 THEN PosInf
    ELSE NegInf

(***************************************************************************)
(* Wide naturals.  Squares of metre-scale coordinates do not fit a 32-bit  *)
(* integer, so a wide natural is a pair <<hi, lo>> standing for            *)
(* hi * 10^6 + lo with 0 <= lo < 10^6.                                     *)
(***************************************************************************)
WideBase == 1000000

WideNorm(hi, lo) == <<hi + (lo \div WideBase), lo % WideBase>>

WideAdd(p, q) == WideNorm(p[1] + q[1], p[2] + q[2])

\* n * n for 0 <= n <= SqrtMax
WideSquare(n) ==
    LET a == n \div 1000
        b == n % 1000
    IN  WideNorm(a * a + ((2 * a * b) \div 1000), ((2 * a * b) % 1000) * 1000 + b * b)

WideLeq(p, q) == p[1] < q[1] \/ (p[1] = q[1] /\ p[2] <= q[2])

WideZero == <<0, 0>>

\* the largest root the search considers; the square root of every sum of
\* squares the model forms is below it
SqrtMax == 16000000

\* the largest r in lo..hi with r * r <= target
SqrtSearch[lo \in Nat, hi \in Nat, target \in Nat \X Nat] ==
    IF lo >= hi THEN lo
    ELSE LET mid == (lo + hi + 1) \div 2
         IN  IF WideLeq(WideSquare(mid), target)
             THEN SqrtSearch[mid, hi, target]
             ELSE SqrtSearch[lo, mid - 1, target]

\* math.sqrt of a wide natural: the floor of the square root
WideSqrt(w) == SqrtSearch[0, SqrtMax, w]

(***************************************************************************)
(* constants / config                                                      *)
(***************************************************************************)
\* constants.Cair: propagation speed in air, metres per microsecond
Cair == 300

\* config.MIN_ALT, config.MAX_ALT: the altitude band of a start point, metres
MIN_ALT == -457
MAX_ALT == 22860

\* config.SOLVER_MAXFEV, the optimizer's iteration budget: the source file does
\* not give its value, the model takes a small one
SOLVER_MAXFEV == 2

\* the largest plausible range offset, 500e3 metres
MaxOffset == 500000

(***************************************************************************)
(* geodesy                                                                 *)
(***************************************************************************)
\* radius of the (spherical) earth, metres
EarthRadius == 6371000

\* the length of an ECEF vector
Norm(v) == WideSqrt(WideAdd(WideAdd(WideSquare(Abs(v[1])), WideSquare(Abs(v[2]))),
                            WideSquare(Abs(v[3]))))

ecef_distance(p0, p1) == Norm(<<p0[1] - p1[1], p0[2] - p1[2], p0[3] - p1[3]>>)

\* latitude in degrees, to the nearest quarter turn
Latitude(ecef) ==
    LET p == Norm(<<ecef[1], ecef[2], 0>>)
    IN  IF Abs(ecef[3]) > p THEN (IF ecef[3] > 0 THEN 90 ELSE -90) ELSE 0

\* longitude in degrees (atan2(y, x)), to the nearest quarter turn
Longitude(ecef) ==
    IF Abs(ecef[2]) > Abs(ecef[1])
    THEN (IF ecef[2] > 0 THEN 90 ELSE -90)
    ELSE (IF ecef[1] < 0 THEN 180 ELSE 0)

ecef2llh(ecef) == <<Latitude(ecef), Longitude(ecef), Norm(ecef) - EarthRadius>>

llh2ecef(llh) ==
    LET r == EarthRadius + llh[3]
    IN  IF llh[1] = 90 THEN <<0, 0, r>>
        ELSE IF llh[1] = -90 THEN <<0, 0, -r>>
        ELSE IF llh[2] = 90 THEN <<0, r, 0>>
        ELSE IF llh[2] = -90 THEN <<0, -r, 0>>
        ELSE IF llh[2] = 180 THEN <<-r, 0, 0>>
        ELSE <<r, 0, 0>>

(***************************************************************************)
(* _residuals                                                              *)
(***************************************************************************)
\* residuals are kept to 1/300 of a unit: a metre over an error of one
\* microsecond
ResScale == 300

IsFinite(x) == \A i \in 1..Len(x) : IsFiniteFloat(x[i])

\* geodesy.ecef_distance and the altitude of geodesy.ecef2llh at a guess
\* that need not be finite: NaN for a NaN coordinate, else +inf for an
\* infinite one
DistanceGuess(receiver_position, position_guess) ==
    IF \E i \in 1..Len(position_guess) : position_guess[i] = NaN THEN NaN
    ELSE IF ~IsFinite(position_guess) THEN PosInf
    ELSE Float(ecef_distance(receiver_position, Numbers(position_guess)))

AltitudeGuess(position_guess) ==
    IF \E i \in 1..Len(position_guess) : position_guess[i] = NaN THEN NaN
    ELSE IF ~IsFinite(position_guess) THEN PosInf
    ELSE Float(ecef2llh(Numbers(position_guess))[3])

\* the residual with the offset added to the distance instead of subtracted
PseudorangeResidual_OffsetAdded(datum, position_guess, offset) ==
    LET pseudorange_guess == FloatSub(DistanceGuess(datum[1], position_guess), FloatNeg(offset))
    IN  FloatDiv(FloatSub(Float(datum[2]), pseudorange_guess), datum[3], ResScale)

\* (pseudorange - pseudorange_guess) / error for one datum, in 1/ResScale units
PseudorangeResidual(datum, position_guess, offset) ==
    LET pseudorange_guess == FloatSub(DistanceGuess(datum[1], position_guess), offset)
    IN  FloatDiv(FloatSub(Float(datum[2]), pseudorange_guess), datum[3], ResScale)

\* (altitude - altitude_guess) / altitude_error, in 1/ResScale units, for
\* the evaluations in which the division does not raise
AltitudeResidual(position_guess, alt, alt_err) ==
    LET altitude_guess == AltitudeGuess(position_guess)
    IN  FloatDiv(FloatSub(Float(alt), altitude_guess), alt_err, ResScale)

\* np.sum(np.array(res)**2), as a wide natural
SumSquares[r \in Seq(Int)] ==
    IF r = <<>> THEN WideZero
    ELSE WideAdd(WideSquare(Abs(Head(r))), SumSquares[Tail(r)])

\* the calls of ecef2llh of one evaluation of _residuals
ResidualsGeodeticCalls(altitude) == IF altitude # None THEN 1 ELSE 0

\* The division by altitude_error raises TypeError when an altitude is
\* given and altitude_error is None.
ResidualsRaises(altitude, altitude_error) ==
    altitude # None /\ altitude_error = None

\* The division by altitude_error is a division by zero: Python floats
\* raise ZeroDivisionError, numpy floats give a non-finite value.
ResidualsDividesByZero(altitude, altitude_error) ==
    altitude # None /\ altitude_error = Some(0)

\* The sum of squared residuals at the state x, for the pseudorange data,
\* the altitude and the altitude error given: Float(w), w a wide natural in
\* 1/ResScale^2 units; NaN when a residual is NaN; +inf when a residual is
\* infinite and none is NaN.
_residuals(x, data, alt, alt_err) ==
    LET position_guess == SubSeq(x, 1, 3)
        offset == x[4]
        res0 == [i \in 1..Len(data) |->
                    PseudorangeResidual(data[i], position_guess, offset)]
        res1 == IF alt # None
                THEN Append(res0, AltitudeResidual(position_guess, alt[1], alt_err[1]))
                ELSE res0
    IN  IF \E i \in 1..Len(res1) : res1[i] = NaN THEN NaN
        ELSE IF ~IsFinite(res1) THEN PosInf
        ELSE Float(SumSquares[Numbers(res1)])

(***************************************************************************)
(* The calls the model makes: their arguments are drawn from these sets.   *)
(***************************************************************************)
\* the longest list of measurements
MaxMeas == 4

\* the transmitter of the synthetic scenarios, 10 km above the earth
TruePosition == <<EarthRadius + 10000, 0, 0>>

\* receiver i lies in direction Direction(i) from the transmitter
Direction(i) ==
    CASE i = 1 -> <<0, 1, 0>>
      [] i = 2 -> <<0, 0, 1>>
      [] i = 3 -> <<-1, 0, 0>>
      [] i = 4 -> <<0, -1, 0>>
      [] i = 5 -> <<0, 0, -1>>
      [] OTHER -> <<1, 0, 0>>

\* the distance of receiver i from the transmitter, the nearest at d0
ReceiverDistance(d0, i) == d0 + 3000 * (i - 1)

\* receiver i of the transmitter at P
ReceiverAt(P, d0, i) ==
    [k \in 1..3 |-> P[k] + Direction(i)[k] * ReceiverDistance(d0, i)]

ReceiverPosition(d0, i) == ReceiverAt(TruePosition, d0, i)

Receiver(d0, i) == [position |-> ReceiverPosition(d0, i)]

\* distances of the nearest receiver: well inside, just inside and just
\* outside the 500 km offset limit (multiples of Cair)
NearestDistances == {3000, 499800, 500100}

\* transmission times of the synthetic scenarios, microseconds
TransmitTimes == {0, 7}

\* Noise-free measurements of n receivers of the transmitter at P: the
\* arrival time is the transmission time plus distance / Cair, to whole
\* microseconds; the differences of the arrival times are exact.  Sorted
\* by timestamp, variance 1.
ScenarioMeasurements(P, d0, t0, n) ==
    [i \in 1..n |-> <<[position |-> ReceiverAt(P, d0, i)],
                      t0 + (ReceiverDistance(d0, i) \div Cair), 1>>]

ExactMeasurements(d0, t0, n) == ScenarioMeasurements(TruePosition, d0, t0, n)

\* arbitrary timestamps and variances
Timestamps == {0, 10}
Variances == {-1, 0, 4}

FreeMeasurements(ts, var) ==
    [i \in 1..Len(ts) |-> <<Receiver(3000, i), ts[i], var[i]>>]

Lists(S) == UNION {[1..n -> S] : n \in 0..MaxMeas}

SolveCall(m, alt, alt_err, guess) ==
    [measurements |-> m, altitude |-> alt, altitude_error |-> alt_err,
     initial_guess |-> guess]

\* start points: on the axes at altitudes below, inside and above the
\* band, the centre of the earth, and a point off the axes
InitialGuesses ==
    {<<EarthRadius + a, 0, 0>> : a \in {-1000, MIN_ALT, 10000, MAX_ALT, 30000}}
    \cup {<<0, EarthRadius + 30000, 0>>, <<0, 0, -(EarthRadius - 1000)>>,
          <<-(EarthRadius + 5000), 0, 0>>, <<0, 0, 0>>,
          <<EarthRadius + 10000, 1000, 0>>}

\* calls with arbitrary measurements
FreeCalls ==
    \* any timestamps, in any order
    {SolveCall(FreeMeasurements(ts, [i \in 1..Len(ts) |-> 1]), alt, Some(100), TruePosition) :
        ts \in Lists(Timestamps), alt \in {None, Some(10000)}}
    \* any variances
    \cup {SolveCall(FreeMeasurements([i \in 1..Len(var) |-> 10 * (i - 1)], var),
                    None, None, TruePosition) : var \in Lists(Variances)}

\* calls with noise-free measurements, any altitude and altitude error
AltitudeCalls ==
    {SolveCall(ExactMeasurements(3000, 0, n), alt, alt_err, TruePosition) :
        n \in {3, 4}, alt \in {None, Some(10000)}, alt_err \in {None, Some(0), Some(100)}}

\* calls with noise-free measurements
ScenarioCalls ==
    AltitudeCalls
    \* any start point
    \cup {SolveCall(ExactMeasurements(3000, 0, 4), None, None, guess) :
            guess \in InitialGuesses}
    \* any distance of the nearest receiver
    \cup {SolveCall(ExactMeasurements(d0, t0, n), alt, Some(100), TruePosition) :
            d0 \in NearestDistances, t0 \in TransmitTimes, n \in 4..MaxMeas,
            alt \in {None, Some(10000)}}

SolveCalls == FreeCalls \cup ScenarioCalls

\* the states the optimizer may end at
CandidatePositions ==
    {TruePosition,
     <<TruePosition[1], 1000, 0>>,
     <<TruePosition[1], 0, 900000>>}

CandidateOffsets == {-1, 0, 3000, 499800, 500000, 500001, 500100}

CandidateStates ==
    {Floats(<<p[1], p[2], p[3], o>>) : p \in CandidatePositions, o \in CandidateOffsets}

\* states that are not finite: all NaN, and an offset run off to +inf or -inf
NaNState == <<NaN, NaN, NaN, NaN>>

InfiniteStates ==
    {<<Float(TruePosition[1]), Float(TruePosition[2]), Float(TruePosition[3]), o>> :
        o \in {PosInf, NegInf}}

\* the most receivers of a noise-free scenario of FitSpec
MaxReceivers == 6

\* transmitters of the noise-free scenarios of FitSpec, on three axes at
\* three altitudes
TransmitterPositions ==
    {TruePosition, <<0, EarthRadius + 5000, 0>>, <<0, 0, -(EarthRadius + 20000)>>}

\* distances of the first receiver: well inside, at and just outside the
\* 500 km offset limit
FitDistances == {3000, 500000, 500001}

\* the start point of a scenario, relative to the transmitter
StartDisplacements == {<<0, 0, 0>>, <<0, 1000, 0>>, <<300, 0, -400>>}

Displaced(P, d) == [k \in 1..3 |-> P[k] + d[k]]

\* the calls of the noise-free scenarios, with and without the
\* transmitter's altitude
FitCalls ==
    {SolveCall(ScenarioMeasurements(P, d0, t0, n),
               IF withAltitude THEN Some(ecef2llh(P)[3]) ELSE None,
               Some(100), Displaced(P, s)) :
        P \in TransmitterPositions, d0 \in FitDistances, t0 \in TransmitTimes,
        n \in 4..MaxReceivers, withAltitude \in BOOLEAN, s \in StartDisplacements}

\* The states the optimizer may end at in FitSpec: a grid of one metre
\* around every transmitter, with offsets around every distance of the
\* first receiver.
FitDisplacements ==
    {<<0, 0, 0>>}
    \cup {[k \in 1..3 |-> IF k = j THEN d ELSE 0] : j \in 1..3, d \in {-2, -1, 1, 2}}

FitOffsets == {0} \cup UNION {{d0 - 1, d0, d0 + 1} : d0 \in FitDistances}

FitStates ==
    {Floats(<<P[1] + d[1], P[2] + d[2], P[3] + d[3], o>>) :
        P \in TransmitterPositions, d \in FitDisplacements, o \in FitOffsets}

\* an inverse-Hessian estimate: symmetric, and no two entries on or above
\* the diagonal are equal
HessInv == [i \in 1..4 |-> [j \in 1..4 |-> 10 * Min2(i, j) + (IF i < j THEN j ELSE i)]]

HessInvs == {None, HessInv}

(***************************************************************************)
(* solve: the state of one invocation                                      *)
(***************************************************************************)
VARIABLES
    pc,                 \* the stage solve is at; "Idle" between invocations
    args,               \* the caller's arguments, as passed
    measurements,       \* solve's parameters
    altitude,
    altitude_error,
    initial_guess,      \* rebound by the clamp
    llh,                \* glat, glng, galt
    base_timestamp,
    pseudorange_data,
    x_guess,
    iter,               \* the optimizer's iteration count
    res,                \* the optimizer's result
    outcome,            \* how the invocation ended
    stages,             \* the stages this invocation went through, in order
    calls               \* how often each collaborator was called by this invocation

vars == <<pc, args, measurements, altitude, altitude_error, initial_guess, llh,
          base_timestamp, pseudorange_data, x_guess, iter, res, outcome, stages, calls>>

NoCalls == [ecef2llh |-> 0, llh2ecef |-> 0, minimize |-> 0, _residuals |-> 0]

Raise(exc) == Some([kind |-> "raise", exc |-> exc, value |-> None])
Return(value) == Some([kind |-> "return", exc |-> "", value |-> value])

\* nothing survives an invocation
Idle ==
    /\ pc = "Idle"
    /\ args = None
    /\ measurements = <<>>
    /\ altitude = None
    /\ altitude_error = None
    /\ initial_guess = None
    /\ llh = None
    /\ base_timestamp = None
    /\ pseudorange_data = None
    /\ x_guess = None
    /\ iter = 0
    /\ res = None
    /\ outcome = None
    /\ stages = <<>>
    /\ calls = NoCalls

Init == Idle

\* solve(measurements, altitude, altitude_error, initial_guess) is called
\* with one of the calls of S
CallFrom(S) ==
    /\ pc = "Idle"
    /\ \E c \in S :
        /\ args' = Some(c)
        /\ measurements' = c.measurements
        /\ altitude' = c.altitude
        /\ altitude_error' = c.altitude_error
        /\ initial_guess' = c.initial_guess
    /\ pc' = "Start"
    /\ stages' = <<"Start">>
    /\ UNCHANGED <<llh, base_timestamp, pseudorange_data, x_guess, iter, res, outcome, calls>>

Call == CallFrom(SolveCalls)

CallAltitude == CallFrom(AltitudeCalls)

CallFit == CallFrom(FitCalls)

\* the check without the altitude: len(measurements) < 4
NotEnoughMeasurements_IgnoringAltitude(m, alt) ==
    Len(m) < 4

\* len(measurements) + (0 if altitude is None else 1) < 4
NotEnoughMeasurements(m, alt) ==
    Len(m) + (IF alt = None THEN 0 ELSE 1) < 4

\* the check of the number of constraints
CheckMeasurements ==
    /\ pc = "Start"
    /\ IF NotEnoughMeasurements(measurements, altitude)
       THEN /\ outcome' = Raise("ValueError")
            /\ pc' = "Done"
            /\ stages' = stages
       ELSE /\ outcome' = outcome
            /\ pc' = "Clamp"
            /\ stages' = Append(stages, "Clamp")
    /\ UNCHANGED <<args, measurements, altitude, altitude_error, initial_guess, llh,
                   base_timestamp, pseudorange_data, x_guess, iter, res, calls>>

\* the clamp without its upper limit
ClampGuess_NoUpperLimit(guess) ==
    LET g0 == ecef2llh(guess)
        low == g0[3] < MIN_ALT
        galt1 == IF low THEN MIN_ALT ELSE g0[3]
        guess1 == IF low THEN llh2ecef(<<g0[1], g0[2], galt1>>) ELSE guess
    IN  [initial_guess |-> guess1,
         llh |-> <<g0[1], g0[2], galt1>>,
         llh2ecef |-> (IF low THEN 1 ELSE 0)]

\* The start point with its altitude brought into MIN_ALT..MAX_ALT:
\* the new initial_guess, (glat, glng, galt), and the number of calls of
\* llh2ecef.
ClampGuess(guess) ==
    LET g0 == ecef2llh(guess)
        low == g0[3] < MIN_ALT
        galt1 == IF low THEN MIN_ALT ELSE g0[3]
        guess1 == IF low THEN llh2ecef(<<g0[1], g0[2], galt1>>) ELSE guess
        high == galt1 > MAX_ALT
        galt2 == IF high THEN MAX_ALT ELSE galt1
        guess2 == IF high THEN llh2ecef(<<g0[1], g0[2], galt2>>) ELSE guess1
    IN  [initial_guess |-> guess2,
         llh |-> <<g0[1], g0[2], galt2>>,
         llh2ecef |-> (IF low THEN 1 ELSE 0) + (IF high THEN 1 ELSE 0)]

\* the clamp of the start point
Clamp ==
    /\ pc = "Clamp"
    /\ LET c == ClampGuess(initial_guess)
       IN  /\ initial_guess' = c.initial_guess
           /\ llh' = Some(c.llh)
           /\ calls' = [calls EXCEPT !.ecef2llh = @ + 1, !.llh2ecef = @ + c.llh2ecef]
    /\ pc' = "Converter"
    /\ stages' = Append(stages, "Converter")
    /\ UNCHANGED <<args, measurements, altitude, altitude_error, base_timestamp,
                   pseudorange_data, x_guess, iter, res, outcome>>

\* math.sqrt(variance), for variance >= 0
Sqrt(variance) == WideSqrt(WideNorm(0, variance))

\* math.sqrt raises ValueError for a negative number
SqrtRaises(m) == \E i \in 1..Len(m) : m[i][3] < 0

\* the conversion relative to the earliest timestamp instead of the first
Pseudoranges_FromEarliest(m) ==
    LET base == CHOOSE t \in {m[i][2] : i \in 1..Len(m)} :
                    \A i \in 1..Len(m) : t <= m[i][2]
    IN  [i \in 1..Len(m) |-> <<m[i][1].position, (m[i][2] - base) * Cair, Sqrt(m[i][3]) * Cair>>]

\* (receiver.position, (timestamp - base_timestamp) * Cair, sqrt(variance) * Cair)
\* for each measurement, in the order of the measurements
Pseudoranges(m) ==
    LET base == m[1][2]
    IN  [i \in 1..Len(m) |-> <<m[i][1].position, (m[i][2] - base) * Cair, Sqrt(m[i][3]) * Cair>>]

\* the pseudorange conversion, and the optimizer's start state
Converter ==
    /\ pc = "Converter"
    /\ base_timestamp' = Some(measurements[1][2])
    /\ IF SqrtRaises(measurements)
       THEN /\ outcome' = Raise("ValueError")
            /\ pc' = "Done"
            /\ stages' = stages
            /\ UNCHANGED <<pseudorange_data, x_guess>>
       ELSE /\ pseudorange_data' = Some(Pseudoranges(measurements))
            /\ x_guess' = Some(Floats(<<initial_guess[1], initial_guess[2], initial_guess[3], 0>>))
            /\ pc' = "Optimize"
            /\ stages' = Append(stages, "Optimize")
            /\ outcome' = outcome
    /\ UNCHANGED <<args, measurements, altitude, altitude_error, initial_guess, llh,
                   iter, res, calls>>

(***************************************************************************)
(* scipy.optimize.minimize(_residuals, x_guess, ..., method='BFGS',        *)
(*                         options={'maxiter': config.SOLVER_MAXFEV})      *)
(***************************************************************************)
\* the bound on the evaluations of the objective that the line searches
\* of one run add to the evaluations every run makes
MaxEvaluations == 1

\* The evaluations of the objective that k finished iterations take at the
\* least.  No jac is passed, so a gradient is a finite difference: one
\* evaluation at the point and one for each component of the state.
EvaluationsNeeded(k) == (k + 1) * (Len(x_guess[1]) + 1)

\* The optimizer is entered and evaluates the objective at x_guess, which
\* calls ecef2llh before it divides by altitude_error.  An exception of the
\* objective leaves minimize and solve.
MinimizeStart ==
    /\ pc = "Optimize"
    /\ calls' = [calls EXCEPT !.minimize = @ + 1,
                              !._residuals = @ + 1,
                              !.ecef2llh = @ + ResidualsGeodeticCalls(altitude)]
    /\ \/ /\ ResidualsRaises(altitude, altitude_error)
          /\ outcome' = Raise("TypeError")
          /\ pc' = "Done"
       \/ /\ ResidualsDividesByZero(altitude, altitude_error)
          /\ outcome' = Raise("ZeroDivisionError")
          /\ pc' = "Done"
       \/ /\ ~ResidualsRaises(altitude, altitude_error)
          /\ outcome' = outcome
          /\ pc' = "Iterate"
    /\ iter' = 0
    /\ UNCHANGED <<args, measurements, altitude, altitude_error, initial_guess, llh,
                   base_timestamp, pseudorange_data, x_guess, res, stages>>

\* a budget of one iteration more
MayIterate_OneMore(k) == k <= SOLVER_MAXFEV

\* the iteration budget is not used up
MayIterate(k) == k < SOLVER_MAXFEV

\* One more evaluation of the objective: for the gradient at x_guess, and
\* in an iteration for its line search and the gradient at the new point.
\* It calls ecef2llh when an altitude is given.
MinimizeEvaluate ==
    /\ pc = "Iterate"
    /\ \/ calls._residuals < EvaluationsNeeded(0)
       \/ /\ MayIterate(iter)
          /\ calls._residuals < EvaluationsNeeded(iter + 1) + MaxEvaluations
    /\ calls' = [calls EXCEPT !._residuals = @ + 1,
                              !.ecef2llh = @ + ResidualsGeodeticCalls(altitude)]
    /\ UNCHANGED <<pc, args, measurements, altitude, altitude_error, initial_guess, llh,
                   base_timestamp, pseudorange_data, x_guess, iter, res, outcome, stages>>

\* one more iteration is finished
MinimizeIterate ==
    /\ pc = "Iterate"
    /\ MayIterate(iter)
    /\ calls._residuals >= EvaluationsNeeded(iter + 1)
    /\ iter' = iter + 1
    /\ UNCHANGED <<pc, args, measurements, altitude, altitude_error, initial_guess, llh,
                   base_timestamp, pseudorange_data, x_guess, res, outcome, stages, calls>>

\* the states at which the optimizer may report success: finite, with a
\* finite objective value
MaySucceedAt(x) ==
    /\ IsFinite(x)
    /\ IsFiniteFloat(_residuals(x, pseudorange_data[1], altitude, altitude_error))

\* The optimizer converges within the budget.
MinimizeSuccess ==
    /\ pc = "Iterate"
    /\ iter < SOLVER_MAXFEV
    /\ calls._residuals >= EvaluationsNeeded(iter)
    /\ \E x \in CandidateStates, h \in HessInvs :
        /\ MaySucceedAt(x)
        /\ res' = Some([success |-> TRUE, x |-> x, hess_inv |-> h])
    /\ pc' = "Result"
    /\ iter' = 0
    /\ UNCHANGED <<args, measurements, altitude, altitude_error, initial_guess, llh,
                   base_timestamp, pseudorange_data, x_guess, outcome, stages, calls>>

\* x with its component i moved by h
Moved(x, i, h) == [x EXCEPT ![i] = Float(x[i][1] + h)]

\* The criterion of convergence, norm of the gradient <= gtol, on the grid
\* of one metre: the central difference of the objective vanishes in every
\* component of the state.
GradientVanishes(x, data, alt, alt_err) ==
    \A i \in 1..Len(x) :
        _residuals(Moved(x, i, 1), data, alt, alt_err)
            = _residuals(Moved(x, i, -1), data, alt, alt_err)

\* the objectives of the calls of FitSpec: pseudorange data, altitude and
\* altitude error
FitObjectives ==
    {<<Pseudoranges(c.measurements), c.altitude, c.altitude_error>> : c \in FitCalls}

\* the pairs of an objective f of FitObjectives and a state of FitStates
\* at which the gradient of f vanishes
StationaryTable ==
    UNION {IF GradientVanishes(x, f[1], f[2], f[3]) THEN {<<f, x>>} ELSE {} :
            f \in FitObjectives, x \in FitStates}

\* the states of FitStates at which the gradient of the objective vanishes
StationaryStates(data, alt, alt_err) ==
    {p[2] : p \in {q \in StationaryTable : q[1] = <<data, alt, alt_err>>}}

\* The optimizer converges within the budget: it reports success at a
\* state where the gradient of the objective vanishes.
MinimizeConverge ==
    /\ pc = "Iterate"
    /\ iter < SOLVER_MAXFEV
    /\ calls._residuals >= EvaluationsNeeded(iter)
    /\ \E x \in StationaryStates(pseudorange_data[1], altitude, altitude_error),
          h \in HessInvs :
        /\ MaySucceedAt(x)
        /\ res' = Some([success |-> TRUE, x |-> x, hess_inv |-> h])
    /\ pc' = "Result"
    /\ iter' = 0
    /\ UNCHANGED <<args, measurements, altitude, altitude_error, initial_guess, llh,
                   base_timestamp, pseudorange_data, x_guess, outcome, stages, calls>>

\* The optimizer gives up: the budget is used up, or precision is lost,
\* or the state, the objective or the gradient is not finite.
MinimizeFailure ==
    /\ pc = "Iterate"
    /\ calls._residuals >= EvaluationsNeeded(iter)
    /\ \E x \in {x_guess[1], NaNState} \cup InfiniteStates :
        res' = Some([success |-> FALSE, x |-> x, hess_inv |-> HessInv])
    /\ pc' = "Result"
    /\ iter' = 0
    /\ UNCHANGED <<args, measurements, altitude, altitude_error, initial_guess, llh,
                   base_timestamp, pseudorange_data, x_guess, outcome, stages, calls>>

(***************************************************************************)
(* solve: the validation of the optimizer's result                         *)
(***************************************************************************)
\* the check without its upper limit
ImplausibleOffset_NoUpperLimit(offset_est) ==
    FloatLess(offset_est, Float(0))

\* the check with the upper limit excluded: offset_est >= 500e3
ImplausibleOffset_Exclusive(offset_est) ==
    FloatLess(offset_est, Float(0)) \/ FloatLess(Float(MaxOffset - 1), offset_est)

\* offset_est < 0 or offset_est > 500e3
ImplausibleOffset(offset_est) ==
    FloatLess(offset_est, Float(0)) \/ FloatLess(Float(MaxOffset), offset_est)

\* the block of the last three rows and columns: hess_inv[1:4, 1:4]
Covariance_WithOffset(hess_inv) == [i \in 1..3 |-> [j \in 1..3 |-> hess_inv[i + 1][j + 1]]]

\* hess_inv[0:3, 0:3]
Covariance(hess_inv) == [i \in 1..3 |-> [j \in 1..3 |-> hess_inv[i][j]]]

\* (*position_est, offset_est) = res.x
PositionEst(x) == SubSeq(x, 1, Len(x) - 1)
OffsetEst(x) == x[Len(x)]

\* the validation without the test of res.success
Result_IgnoringSuccess(r) ==
    IF ImplausibleOffset(OffsetEst(r.x))
    THEN None
    ELSE IF r.hess_inv = None
         THEN Some(<<PositionEst(r.x), None>>)
         ELSE Some(<<PositionEst(r.x), Some(Covariance(r.hess_inv))>>)

\* what solve returns for the optimizer's result r
Result(r) ==
    IF r.success
    THEN IF ImplausibleOffset(OffsetEst(r.x))
         THEN None
         ELSE IF r.hess_inv = None
              THEN Some(<<PositionEst(r.x), None>>)
              ELSE Some(<<PositionEst(r.x), Some(Covariance(r.hess_inv))>>)
    ELSE None

\* a solve that runs the optimizer a second time when the first run failed
Validate_Retrying ==
    /\ pc = "Result"
    /\ IF ~res[1].success /\ calls.minimize < 2
       THEN /\ pc' = "Optimize"
            /\ UNCHANGED <<outcome, stages>>
       ELSE /\ outcome' = Return(Result(res[1]))
            /\ stages' = IF res[1].success THEN Append(stages, "Validate") ELSE stages
            /\ pc' = "Done"
    /\ UNCHANGED <<args, measurements, altitude, altitude_error, initial_guess, llh,
                   base_timestamp, pseudorange_data, x_guess, iter, res, calls>>

\* solve looks at the optimizer's result and returns
Validate ==
    /\ pc = "Result"
    /\ outcome' = Return(Result(res[1]))
    /\ stages' = IF res[1].success THEN Append(stages, "Validate") ELSE stages
    /\ pc' = "Done"
    /\ UNCHANGED <<args, measurements, altitude, altitude_error, initial_guess, llh,
                   base_timestamp, pseudorange_data, x_guess, iter, res, calls>>

\* the caller has the outcome; the invocation's state is gone
ReturnToCaller ==
    /\ pc = "Done"
    /\ pc' = "Idle"
    /\ args' = None
    /\ measurements' = <<>>
    /\ altitude' = None
    /\ altitude_error' = None
    /\ initial_guess' = None
    /\ llh' = None
    /\ base_timestamp' = None
    /\ pseudorange_data' = None
    /\ x_guess' = None
    /\ iter' = 0
    /\ res' = None
    /\ outcome' = None
    /\ stages' = <<>>
    /\ calls' = NoCalls

Step ==
    \/ CheckMeasurements
    \/ Clamp
    \/ Converter
    \/ MinimizeStart
    \/ MinimizeEvaluate
    \/ MinimizeIterate
    \/ MinimizeSuccess
    \/ MinimizeFailure
    \/ Validate
    \/ ReturnToCaller

Next == Call \/ Step

Spec == Init /\ [][Next]_vars

\* The calls of AltitudeCalls alone, and a called solve keeps running: the
\* interpreter executes the function to its end.
FairNext == CallAltitude \/ Step

FairSpec == Init /\ [][FairNext]_vars /\ WF_vars(Step)

\* The noise-free scenarios, with an optimizer that reports success only
\* where it has converged.
FitStep ==
    \/ CheckMeasurements
    \/ Clamp
    \/ Converter
    \/ MinimizeStart
    \/ MinimizeEvaluate
    \/ MinimizeIterate
    \/ MinimizeConverge
    \/ MinimizeFailure
    \/ Validate
    \/ ReturnToCaller

FitNext == CallFit \/ FitStep

FitSpec == Init /\ [][FitNext]_vars

(***************************************************************************)
(* Properties                                                              *)
(***************************************************************************)
Finished == pc = "Done"

Raised(exc) == outcome # None /\ outcome[1].kind = "raise" /\ outcome[1].exc = exc
RaisedAny == outcome # None /\ outcome[1].kind = "raise"
ReturnedNone == outcome # None /\ outcome[1].kind = "return" /\ outcome[1].value = None
ReturnedSuccess == outcome # None /\ outcome[1].kind = "return" /\ outcome[1].value # None

\* the position and the covariance of a returned Success
ReturnedPosition == outcome[1].value[1][1]
ReturnedCovariance == outcome[1].value[1][2]

\* the number of constraints the caller supplied
Constraints == Len(args[1].measurements) + (IF args[1].altitude = None THEN 0 ELSE 1)

NegativeVariance == \E i \in 1..Len(args[1].measurements) : args[1].measurements[i][3] < 0
PositiveVariances == \A i \in 1..Len(args[1].measurements) : args[1].measurements[i][3] > 0

\* an altitude comes with an altitude error that is a number other than 0
UsableAltitudeError ==
    args[1].altitude # None => (args[1].altitude_error # None /\ args[1].altitude_error # Some(0))

OptimizerSucceeded == res # None /\ res[1].success

\* C1 as stated: ValueError is raised exactly when there are fewer than 4
\* constraints, whatever the measurements hold, and then no collaborator
\* has been called.
C1_AsStated ==
    Finished =>
        /\ Raised("ValueError") <=> Constraints < 4
        /\ Raised("ValueError") => calls = NoCalls

\* C1, amended: fewer than 4 constraints always raise ValueError, before
\* any collaborator is called.  With 4 or more constraints ValueError is
\* raised exactly when a variance is negative, after the geodetic
\* collaborator and before the optimizer was called; in particular 3
\* measurements with an altitude and variances >= 0 reach the optimizer.
C1_InputError ==
    Finished =>
        /\ Constraints < 4 => Raised("ValueError") /\ calls = NoCalls
        /\ Constraints >= 4 =>
            /\ Raised("ValueError") <=> NegativeVariance
            /\ Raised("ValueError") => calls.ecef2llh = 1 /\ calls.minimize = 0
            /\ ~NegativeVariance => calls.minimize = 1

C1_Witness ==
    /\ Finished
    /\ Len(args[1].measurements) = 3
    /\ args[1].altitude = None
    /\ Raised("ValueError")
    /\ calls = NoCalls

\* the optimizer's offset, a number when the optimizer succeeded
OptimizerOffset == res[1].x[4][1]

\* C2: when the optimizer reports success with an offset below 0 or above
\* 500000, solve returns None; every Success has 0 <= offset <= 500000.
C2_ImplausibleOffsetRejected ==
    Finished /\ OptimizerSucceeded =>
        /\ (OptimizerOffset < 0 \/ OptimizerOffset > 500000) => ReturnedNone
        /\ ReturnedSuccess => (0 <= OptimizerOffset /\ OptimizerOffset <= 500000)

C2_Witness ==
    /\ Finished
    /\ OptimizerSucceeded
    /\ OptimizerOffset = 500001
    /\ ReturnedNone

\* C3 as stated: with 4 or more constraints and variances > 0 solve never
\* raises, a failed optimizer gives None, and no Success holds a NaN.
\* (The calls with an altitude error of 0 are set aside: whether the
\* division raises there depends on the float types involved.)
C3_AsStated ==
    Finished /\ Constraints >= 4 /\ PositiveVariances /\ args[1].altitude_error # Some(0) =>
        /\ ~RaisedAny
        /\ (res # None /\ ~res[1].success) => ReturnedNone
        /\ ReturnedSuccess => IsFinite(ReturnedPosition)

\* C3, amended: the same, for the calls whose altitude, if any, comes with
\* an altitude error that is a number other than 0.
C3_NoFault ==
    Finished /\ Constraints >= 4 /\ PositiveVariances /\ UsableAltitudeError =>
        /\ ~RaisedAny
        /\ (res # None /\ ~res[1].success) => ReturnedNone
        /\ ReturnedSuccess => IsFinite(ReturnedPosition)

\* the optimizer ended at a NaN state and solve returned None
C3_Witness ==
    /\ Finished
    /\ Constraints >= 4 /\ PositiveVariances /\ UsableAltitudeError
    /\ res # None /\ ~res[1].success /\ res[1].x = NaNState
    /\ ReturnedNone

\* the altitude of a start point, clamped
ClampedAltitude(alt) == IF alt < MIN_ALT THEN MIN_ALT ELSE IF alt > MAX_ALT THEN MAX_ALT ELSE alt

\* C4: the optimizer's start position has the clamped altitude and the
\* latitude and longitude of the caller's initial guess; a guess inside
\* the band is passed on as it is, without a conversion back to ECEF; the
\* start offset is 0.
C4_StartPoint ==
    x_guess # None =>
        LET given == args[1].initial_guess
            start == Numbers(SubSeq(x_guess[1], 1, 3))
            g == ecef2llh(given)
            s == ecef2llh(start)
        IN  /\ s[3] = ClampedAltitude(g[3])
            /\ s[1] = g[1] /\ s[2] = g[2]
            /\ (MIN_ALT <= g[3] /\ g[3] <= MAX_ALT) => (start = given /\ calls.llh2ecef = 0)
            /\ x_guess[1][4] = Float(0)

\* a start point above the band was clamped
C4_Witness ==
    /\ x_guess # None
    /\ ecef2llh(args[1].initial_guess)[3] > MAX_ALT
    /\ ecef2llh(Numbers(SubSeq(x_guess[1], 1, 3)))[3] = MAX_ALT

\* C5: a Success holds the first three components of the optimizer's
\* state; its covariance is None exactly when the optimizer gave no
\* inverse Hessian, and else rows and columns 1..3 of it.
C5_Covariance ==
    Finished /\ ReturnedSuccess =>
        /\ ReturnedPosition = <<res[1].x[1], res[1].x[2], res[1].x[3]>>
        /\ ReturnedCovariance = None <=> res[1].hess_inv = None
        /\ res[1].hess_inv # None =>
            /\ Len(ReturnedCovariance[1]) = 3
            /\ \A i \in 1..3 :
                /\ Len(ReturnedCovariance[1][i]) = 3
                /\ \A j \in 1..3 : ReturnedCovariance[1][i][j] = res[1].hess_inv[i][j]

C5_Witness ==
    /\ Finished
    /\ ReturnedSuccess
    /\ res[1].hess_inv # None
    /\ ReturnedCovariance # None

StageOrders ==
    {<<>>, <<"Start">>, <<"Start", "Clamp">>, <<"Start", "Clamp", "Converter">>,
     <<"Start", "Clamp", "Converter", "Optimize">>,
     <<"Start", "Clamp", "Converter", "Optimize", "Validate">>}

HasValidated == Len(stages) = 5

\* C6 as stated: the pseudorange conversion precedes the clamp of the
\* initial guess, the optimizer runs after both and once, the result is
\* validated only if the optimizer converged, every invocation ends in
\* InputError, None or a Success, and nothing is kept between invocations.
C6_AsStated ==
    /\ llh # None => base_timestamp # None
    /\ calls.minimize > 0 => (llh # None /\ pseudorange_data # None)
    /\ calls.minimize <= 1
    /\ HasValidated => OptimizerSucceeded
    /\ Finished => (Raised("ValueError") /\ Constraints < 4) \/ ReturnedNone \/ ReturnedSuccess
    /\ pc = "Idle" => Idle

\* C6, amended: the stages are Start, Clamp, Converter, Optimize and, only
\* if the optimizer converged, Validate: the clamp of the initial guess
\* precedes the pseudorange conversion.  The optimizer runs after both and
\* once.  Every invocation ends in exactly one of a raised exception, None
\* or a Success; the exception is the ValueError of too few constraints
\* unless a variance is negative or an altitude comes without a usable
\* altitude error.  Nothing is kept between invocations.
C6_Stages ==
    /\ stages \in StageOrders
    /\ base_timestamp # None => llh # None
    /\ calls.minimize > 0 => (llh # None /\ pseudorange_data # None)
    /\ calls.minimize <= 1
    /\ HasValidated <=> (OptimizerSucceeded /\ Finished)
    /\ Finished =>
        /\ RaisedAny \/ ReturnedNone \/ ReturnedSuccess
        /\ ~(RaisedAny /\ ReturnedNone) /\ ~(RaisedAny /\ ReturnedSuccess)
        /\ ~(ReturnedNone /\ ReturnedSuccess)
        /\ (~NegativeVariance /\ UsableAltitudeError) =>
                (RaisedAny <=> (Raised("ValueError") /\ Constraints < 4 /\ stages = <<"Start">>))
        /\ ReturnedSuccess => HasValidated
    /\ pc = "Idle" => Idle

\* an invocation went through every stage and returned a Success
C6_Witness ==
    /\ Finished
    /\ stages = <<"Start", "Clamp", "Converter", "Optimize", "Validate">>
    /\ calls.minimize = 1
    /\ ReturnedSuccess

\* C7: the optimizer never iterates more than SOLVER_MAXFEV times, and
\* every invocation of solve ends.
C7_Terminates ==
    /\ [](iter <= SOLVER_MAXFEV)
    /\ (pc = "Start") ~> (pc = "Done")

\* the optimizer has used up its budget
C7_Witness ==
    /\ pc = "Iterate"
    /\ iter = SOLVER_MAXFEV

\* the call is the noise-free scenario of n receivers of the transmitter
\* at P, the first receiver at distance d0
FitCall(P, d0, t0, n) ==
    /\ args # None
    /\ args[1].measurements = ScenarioMeasurements(P, d0, t0, n)

\* the position is within 1 metre of P
WithinTolerance(position, P) == ecef_distance(P, Numbers(position)) <= 1

C9_Pseudoranges ==
    pseudorange_data # None =>
        LET given == args[1].measurements
            data == pseudorange_data[1]
        IN  /\ measurements = given
            /\ base_timestamp = Some(given[1][2])
            /\ Len(data) = Len(given)
            /\ data[1][2] = 0
            /\ \A i \in 1..Len(given) :
                /\ data[i][1] = given[i][1].position
                /\ data[i][2] = (given[i][2] - given[1][2]) * Cair
                /\ given[i][2] < given[1][2] => data[i][2] < 0
            /\ (\A i \in 1..(Len(given) - 1) : given[i][2] <= given[i + 1][2]) =>
                    \A i \in 1..Len(given) : data[i][2] >= 0

\* a list that is not sorted was converted
C9_Witness ==
    /\ pseudorange_data # None
    /\ \E i \in 1..Len(measurements) : measurements[i][2] < measurements[1][2]
    /\ \E i \in 1..Len(measurements) : pseudorange_data[1][i][2] < 0

\* the distance from the returned position to the nearest receiver
FarFromEveryReceiver ==
    \A i \in 1..Len(measurements) :
        ecef_distance(measurements[i][1].position, Numbers(ReturnedPosition)) > 500000

\* C10: when the optimizer reports success with 0 <= offset <= 500000,
\* solve returns a Success, however far the position is from the receivers.
C10_OffsetIsTheOnlyGate ==
    (Finished /\ OptimizerSucceeded /\ 0 <= OptimizerOffset /\ OptimizerOffset <= 500000) =>
        ReturnedSuccess

\* a Success at the upper limit of the offset, more than 500 km from every
\* receiver and above MAX_ALT
C10_Witness ==
    /\ Finished
    /\ OptimizerSucceeded
    /\ OptimizerOffset = 500000
    /\ ReturnedSuccess
    /\ FarFromEveryReceiver
    /\ ecef2llh(Numbers(ReturnedPosition))[3] > MAX_ALT

====
